---- MODULE Spec2Model ----
(***************************************************************************)
(* Model of the constraint-satisfaction engine of src/src/lib.rs:          *)
(* RawProblem (builder) -> NormalizedProblem -> PropagatedProblem ->       *)
(* solve_backtracking / solve_cbj.                                         *)
(*                                                                         *)
(* Variables are identified with their 0-based id, as in the source; a     *)
(* Vec is a TLA+ sequence, so Vec index j is sequence index j + 1.         *)
(***************************************************************************)
EXTENDS Integers, Sequences, FiniteSets, TLC

\* Bounds of the explored inputs.
MaxVars == 2
MaxVal == 2
MaxCons == 2
MaxScope == 3

Universe == 1..MaxVal

Range(s) == {s[j] : j \in 1..Len(s)}

SeqsUpTo(S, n) == UNION {[1..m -> S] : m \in 0..n}

\* The domains handed to add_var: every duplicate-free Vec over the universe,
\* in any order (the empty Vec included).
DomainInputs == {d \in SeqsUpTo(Universe, MaxVal) : Cardinality(Range(d)) = Len(d)}

\* The closures handed to add_constraint.  A closure receives a mutable
\* iterator over the scope's values; what it reads is gone from the iterator.
\*   never    : |_| false                       (reads nothing)
\*   distinct  : reads every value; all read values pairwise different
\*   ascending : reads every value; the read values strictly increase
\*   equals v  : reads every value; all read values are v
Evaluations ==
    {[kind |-> "never", val |-> 0], [kind |-> "distinct", val |-> 0],
     [kind |-> "ascending", val |-> 0]}
        \cup {[kind |-> "equals", val |-> v] : v \in Universe}

\* One call of a closure on the iterator `it` (the values not read yet):
\* its result and what is left of the iterator afterwards.
Call(evaluation, it) ==
    CASE evaluation.kind = "never" -> [holds |-> FALSE, rest |-> it]
      [] evaluation.kind = "distinct" ->
            [holds |-> \A a, b \in 1..Len(it) : a # b => it[a] # it[b],
             rest |-> <<>>]
      [] evaluation.kind = "ascending" ->
            [holds |-> \A a \in 1..(Len(it) - 1) : it[a] < it[a + 1],
             rest |-> <<>>]
      [] OTHER ->
            [holds |-> \A a \in 1..Len(it) : it[a] = evaluation.val,
             rest |-> <<>>]

\* A stored Evaluation is the closure nest built by normalize_problem,
\* ((e1 && e2) && e3) ..., kept as the sequence <<e1, e2, e3>>.  Every closure
\* of the nest is called on the SAME iterator u: `curr_eval(u) && evaluate(u)`.
RECURSIVE CallNest(_, _, _)
CallNest(evals, m, it) ==
    IF m = 1 THEN Call(evals[1], it)
    ELSE LET a == CallNest(evals, m - 1, it)
         IN  IF a.holds THEN Call(evals[m], a.rest)
             ELSE [holds |-> FALSE, rest |-> a.rest]

\* eval(&mut values.into_iter())
Eval(evals, values) == CallNest(evals, Len(evals), values).holds

VARIABLES
    pc,               \* where the client's pipeline stands
    raw_domains,      \* RawProblem.domains (variable id = position - 1)
    raw_constraints,  \* RawProblem.constraints
    domains,          \* NormalizedProblem / PropagatedProblem .domains
    constraints,      \* NormalizedProblem.constraints: scope -> closure nest
    node_i,           \* make_node_consistency: loop index i
    worklist,         \* make_arc_consistency: worklist
    rerun,            \* make_arc_consistency is running on its own result
    first_domains,    \* the domains the first make_arc_consistency returned
    prop_constraints, \* PropagatedProblem.constraints (sorted Vec)
    candidate,        \* solve_backtracking: candidate
    bt_k,             \* backtrack: k of the running frame
    bt_pc,            \* backtrack: "enter" (frame starts) or "resume" (callee returned false)
    bt_result,        \* what solve_backtracking returned
    cbj_i,            \* solve_cbj: i
    curr_domain,      \* solve_cbj: curr_domain
    conf_set,         \* solve_cbj: conf_set
    vals,             \* solve_cbj: vals
    cbj_result        \* what solve_cbj returned

rawVars == <<raw_domains, raw_constraints>>
propVars == <<domains, constraints, node_i, worklist, rerun, first_domains, prop_constraints>>
btVars == <<candidate, bt_k, bt_pc, bt_result>>
cbjVars == <<cbj_i, curr_domain, conf_set, vals, cbj_result>>
vars == <<pc, rawVars, propVars, btVars, cbjVars>>

NumVars == Len(raw_domains)
VarIds == 0..(NumVars - 1)

\* scope.is_sorted_by_key(|v| v.id)
is_sorted_by_key(scope) == \A j \in 1..(Len(scope) - 1) : scope[j] <= scope[j + 1]

EmptyMap == [s \in {} |-> <<>>]

\* Option<T>: None is the empty sequence, Some(v) the sequence <<v>>.
None == <<>>
Some(v) == <<v>>

\* A search that has not returned yet, and the three ways one ends.
Pending == [kind |-> "pending", vals |-> <<>>]
Solution(vs) == [kind |-> "some", vals |-> vs]
NoSolution == [kind |-> "none", vals |-> <<>>]
Panic == [kind |-> "panic", vals |-> <<>>]

Init ==
    /\ pc = "raw"
    /\ raw_domains = <<>>
    /\ raw_constraints = <<>>
    /\ domains = <<>>
    /\ constraints = EmptyMap
    /\ node_i = 0
    /\ worklist = <<>>
    /\ rerun = FALSE
    /\ first_domains = <<>>
    /\ prop_constraints = <<>>
    /\ candidate = <<>>
    /\ bt_k = 0
    /\ bt_pc = "enter"
    /\ bt_result = Pending
    /\ cbj_i = 0
    /\ curr_domain = <<>>
    /\ conf_set = <<>>
    /\ vals = <<>>
    /\ cbj_result = Pending

add_var(domain) ==
    /\ pc = "raw"
    /\ Len(raw_domains) < MaxVars
    /\ raw_domains' = Append(raw_domains, domain)
    /\ UNCHANGED <<pc, raw_constraints, propVars, btVars, cbjVars>>

add_constraint(scope, evaluation) ==
    /\ pc = "raw"
    /\ Len(raw_constraints) < MaxCons
    /\ IF is_sorted_by_key(scope)
       THEN /\ raw_constraints' =
                   Append(raw_constraints, [scope |-> scope, evaluate |-> evaluation])
            /\ pc' = pc
       ELSE /\ pc' = "aborted"
            /\ UNCHANGED raw_constraints
    /\ UNCHANGED <<raw_domains, propVars, btVars, cbjVars>>

\* The HashMap after the first m constraints of the list have been folded in.
RECURSIVE normalized_cons(_, _)
normalized_cons(cons, m) ==
    IF m = 0 THEN EmptyMap
    ELSE LET map == normalized_cons(cons, m - 1)
             c == cons[m]
         IN  IF c.scope \in DOMAIN map
             THEN [map EXCEPT ![c.scope] = Append(@, c.evaluate)]
             ELSE [s \in (DOMAIN map) \cup {c.scope} |->
                      IF s = c.scope THEN <<c.evaluate>> ELSE map[s]]

\* normalize_problem, and constraint_propagation up to the loop of
\* make_node_consistency.
normalize_problem ==
    /\ pc = "raw"
    /\ pc' = "node"
    /\ domains' = raw_domains
    /\ constraints' = normalized_cons(raw_constraints, Len(raw_constraints))
    /\ node_i' = 0
    /\ UNCHANGED <<rawVars, worklist, rerun, first_domains, prop_constraints, btVars, cbjVars>>

\* retain_node with the domain rebuilt from the universe instead of filtered.
retain_node_rebuilt(values, evals) ==
    SelectSeq([v \in 1..MaxVal |-> v], LAMBDA vx : Eval(evals, <<vx>>))

\* domain.retain(|&vx| eval(&mut [vx].into_iter()))
retain_node(values, evals) == SelectSeq(values, LAMBDA vx : Eval(evals, <<vx>>))

\* One iteration of the loop of make_node_consistency.
make_node_consistency ==
    /\ pc = "node"
    /\ node_i < NumVars
    /\ IF <<node_i>> \in DOMAIN constraints
       THEN /\ domains' = [domains EXCEPT ![node_i + 1] =
                              retain_node(@, constraints[<<node_i>>])]
            /\ constraints' = [s \in (DOMAIN constraints) \ {<<node_i>>} |-> constraints[s]]
       ELSE UNCHANGED <<domains, constraints>>
    /\ node_i' = node_i + 1
    /\ UNCHANGED <<pc, rawVars, worklist, rerun, first_domains, prop_constraints, btVars, cbjVars>>

\* vars_cartesian_product: (var1, var2) pairs, var1 outer loop, var2 inner.
vars_cartesian_product ==
    [j \in 1..(NumVars * NumVars) |-> <<(j - 1) \div NumVars, (j - 1) % NumVars>>]

has_constraint(scope) == scope \in DOMAIN constraints

\* The worklist make_arc_consistency starts from.
initial_worklist ==
    SelectSeq(vars_cartesian_product,
              LAMBDA a : has_constraint(<<a[1], a[2]>>) \/ has_constraint(<<a[2], a[1]>>))

\* make_arc_consistency up to the first test of the while loop.
init_worklist ==
    /\ pc = "node"
    /\ node_i = NumVars
    /\ pc' = "arc"
    /\ worklist' = initial_worklist
    /\ UNCHANGED <<rawVars, domains, constraints, node_i, rerun, first_domains,
                   prop_constraints, btVars, cbjVars>>

\* Is vx supported: domains[y].values.iter().any(|&vy| constraints.get(&vec![x, y])
\*                      .is_some_and(|eval| eval(&mut [vx, vy].into_iter())))
supported(doms, x, y, vx) ==
    \E j \in 1..Len(doms[y + 1]) :
        /\ has_constraint(<<x, y>>)
        /\ Eval(constraints[<<x, y>>], <<vx, doms[y + 1][j]>>)

\* arc_reduce: the loop over the clone of x's values, from clone position j on.
RECURSIVE arc_reduce_from(_, _, _, _, _, _)
arc_reduce_from(doms, x, y, clone, j, change) ==
    IF j > Len(clone) THEN [domains |-> doms, change |-> change]
    ELSE IF ~supported(doms, x, y, clone[j])
         THEN arc_reduce_from(
                [doms EXCEPT ![x + 1] = SelectSeq(@, LAMBDA vxx : vxx # clone[j])],
                x, y, clone, j + 1, TRUE)
         ELSE arc_reduce_from(doms, x, y, clone, j + 1, change)

arc_reduce(doms, x, y) == arc_reduce_from(doms, x, y, doms[x + 1], 1, FALSE)

\* reenqueue without the `|| constraints.get(&vec![x, z]).is_some()` operand.
reenqueue_first_operand(x, y) ==
    SelectSeq(vars_cartesian_product,
              LAMBDA a : a[1] # y /\ a[2] = x /\ has_constraint(<<a[1], x>>))

\* The arcs appended after arc (x, y) pruned x: the filter of lines 157-160,
\* where `a && b && c || d` reads `(a && b && c) || d`.
reenqueue(x, y) ==
    SelectSeq(vars_cartesian_product,
              LAMBDA a : \/ (a[1] # y /\ a[2] = x /\ has_constraint(<<a[1], x>>))
                         \/ has_constraint(<<x, a[1]>>))

\* One iteration of the while loop of make_arc_consistency.
arc_step ==
    /\ pc = "arc"
    /\ worklist # <<>>
    /\ LET arc == worklist[Len(worklist)]
           rest == SubSeq(worklist, 1, Len(worklist) - 1)
           x == arc[1]
           y == arc[2]
           r == arc_reduce(domains, x, y)
       IN  /\ domains' = r.domains
           /\ IF r.change
              THEN IF r.domains[x + 1] = <<>>
                   THEN /\ pc' = "unsat"
                        /\ worklist' = rest
                   ELSE /\ pc' = pc
                        /\ worklist' = rest \o reenqueue(x, y)
              ELSE /\ pc' = pc
                   /\ worklist' = rest
    /\ UNCHANGED <<rawVars, constraints, node_i, rerun, first_domains, prop_constraints,
                   btVars, cbjVars>>

\* domain.values.sort_unstable()
sort_domain(values) == SortSeq(values, LAMBDA a, b : a < b)

sort_domains(doms) == [j \in 1..Len(doms) |-> sort_domain(doms[j])]

\* The comparator of sort_constraints from the j-th element from the end on:
\* -1 for Less, 0 for Equal, 1 for Greater.
RECURSIVE scope_cmp(_, _, _)
scope_cmp(scope_a, scope_b, j) ==
    IF j >= Len(scope_a) /\ j >= Len(scope_b) THEN 0
    ELSE IF j >= Len(scope_a) THEN 0 - 1
    ELSE IF j >= Len(scope_b) THEN 1
    ELSE LET a == scope_a[Len(scope_a) - j]
             b == scope_b[Len(scope_b) - j]
         IN  IF a = b THEN scope_cmp(scope_a, scope_b, j + 1)
             ELSE IF a < b THEN 0 - 1 ELSE 1

\* sort_constraints(constraints.into_iter().collect()): the keys of the map
\* are pairwise different and the comparator orders different scopes strictly,
\* so the sorted Vec does not depend on the HashMap's iteration order.
RECURSIVE sort_constraints(_)
sort_constraints(map) ==
    IF DOMAIN map = {} THEN <<>>
    ELSE LET least == CHOOSE s \in DOMAIN map :
                          \A t \in DOMAIN map : scope_cmp(s, t, 0) <= 0
         IN  <<[scope |-> least, evaluate |-> map[least]]>>
                 \o sort_constraints([s \in (DOMAIN map) \ {least} |-> map[s]])

\* The while loop of make_arc_consistency ends: Some(self).  In
\* constraint_propagation it is followed by sort_domains and sort_constraints.
arc_return ==
    /\ pc = "arc"
    /\ worklist = <<>>
    /\ IF rerun
       THEN /\ pc' = "rerun_done"
            /\ UNCHANGED <<domains, prop_constraints, first_domains>>
       ELSE /\ pc' = "propagated"
            /\ domains' = sort_domains(domains)
            /\ prop_constraints' = sort_constraints(constraints)
            /\ first_domains' = domains
    /\ UNCHANGED <<rawVars, constraints, node_i, worklist, rerun, btVars, cbjVars>>

\* The client runs make_arc_consistency once more, on the domains the first
\* run returned and the same constraints.
rerun_arc_consistency ==
    /\ pc = "propagated"
    /\ pc' = "arc"
    /\ rerun' = TRUE
    /\ domains' = first_domains
    /\ worklist' = initial_worklist
    /\ UNCHANGED <<rawVars, constraints, node_i, first_domains, prop_constraints,
                   btVars, cbjVars>>

\* The values of a scope in a candidate: constraint.0.iter().map(|var|
\* candidate[var.id].unwrap()).  has_none: the unwrap of an unassigned slot.
scope_values(scope, cand) == [j \in 1..Len(scope) |-> cand[scope[j] + 1][1]]
has_none(scope, cand) == \E j \in 1..Len(scope) : cand[scope[j] + 1] = None

\* to_check of reject: the constraints whose scope ends in variable k - 1, in
\* the order of self.constraints.
to_check(k) ==
    SelectSeq(prop_constraints,
              LAMBDA c : Len(c.scope) > 0 /\ c.scope[Len(c.scope)] = k - 1)

\* !constraint.1(&mut vals_needed)
violated(c, cand) == ~Eval(c.evaluate, scope_values(c.scope, cand))

\* The loop of reject without its early return: every constraint of to_check
\* is evaluated and the last verdict is the one kept.
reject_evaluated_whole(cand, k) == IF k = 0 THEN <<>> ELSE to_check(k)

\* The constraints the loop of reject evaluates, in order: to_check up to and
\* including the first violated one (`return true`), all of it if none is.
reject_evaluated(cand, k) ==
    IF k = 0 THEN <<>>
    ELSE LET broken == {j \in 1..Len(to_check(k)) : violated(to_check(k)[j], cand)}
         IN  IF broken = {} THEN to_check(k)
             ELSE SubSeq(to_check(k), 1, CHOOSE j \in broken : \A m \in broken : j <= m)

\* PropagatedProblem::reject: the loop ended on a violated constraint.
reject(cand, k) ==
    LET evaluated == reject_evaluated(cand, k)
    IN  evaluated # <<>> /\ violated(evaluated[Len(evaluated)], cand)

\* PropagatedProblem::accept (only called on a candidate of length > 0)
accept(cand) == cand[Len(cand)] # None

\* binary_search(&curr_val).unwrap() + 1, as a sequence index: the position
\* after the one holding curr_val (the domains are sorted and duplicate-free).
next_index(values, curr_val) == (CHOOSE j \in 1..Len(values) : values[j] = curr_val) + 1

\* solve_backtracking returns with `res`.
bt_finish(res) ==
    /\ bt_result' = res
    /\ pc' = "bt_done"

\* backtrack(candidate, k) returns false to its caller.
bt_return_false(k) ==
    IF k = 0
    THEN /\ bt_finish(NoSolution)
         /\ UNCHANGED <<bt_k, bt_pc>>
    ELSE /\ bt_k' = k - 1
         /\ bt_pc' = "resume"
         /\ UNCHANGED <<pc, bt_result>>

\* solve_backtracking up to the call backtrack(&mut candidate, 0).
solve_backtracking ==
    /\ pc = "propagated"
    /\ pc' = "backtrack"
    /\ candidate' = [j \in 1..NumVars |-> None]
    /\ bt_k' = 0
    /\ bt_pc' = "enter"
    /\ UNCHANGED <<rawVars, propVars, bt_result, cbjVars>>

\* backtrack(candidate, k) from its entry to its first recursive call or
\* return.  A `return true` unwinds every frame (lines 248-250) and ends
\* solve_backtracking.
backtrack_enter ==
    /\ pc = "backtrack"
    /\ bt_pc = "enter"
    /\ IF reject(candidate, bt_k)
       THEN /\ bt_return_false(bt_k)
            /\ UNCHANGED candidate
       ELSE IF Len(candidate) = 0
       THEN \* accept: candidate[candidate.len() - 1] with len = 0
            /\ bt_finish(Panic)
            /\ UNCHANGED <<candidate, bt_k, bt_pc>>
       ELSE IF accept(candidate)
       THEN /\ bt_finish(Solution([j \in 1..Len(candidate) |-> candidate[j][1]]))
            /\ UNCHANGED <<candidate, bt_k, bt_pc>>
       ELSE IF domains[bt_k + 1] = <<>>
       THEN \* first: self.domains[k].values[0] on an empty Vec
            /\ bt_finish(Panic)
            /\ UNCHANGED <<candidate, bt_k, bt_pc>>
       ELSE \* first: candidate[k] = Some(values[0]); backtrack(candidate, k + 1)
            /\ candidate' = [candidate EXCEPT ![bt_k + 1] = Some(domains[bt_k + 1][1])]
            /\ bt_k' = bt_k + 1
            /\ UNCHANGED <<pc, bt_pc, bt_result>>
    /\ UNCHANGED <<rawVars, propVars, cbjVars>>

\* backtrack(candidate, k) after backtrack(candidate, k + 1) returned false:
\* s = self.next(candidate, k + 1), then the next recursive call or line 255.
backtrack_resume ==
    /\ pc = "backtrack"
    /\ bt_pc = "resume"
    /\ LET values == domains[bt_k + 1]
       IN  IF candidate[bt_k + 1] = Some(values[Len(values)])
           THEN /\ candidate' = [candidate EXCEPT ![bt_k + 1] = None]
                /\ bt_return_false(bt_k)
           ELSE /\ candidate' = [candidate EXCEPT ![bt_k + 1] =
                                    Some(values[next_index(values, candidate[bt_k + 1][1])])]
                /\ bt_k' = bt_k + 1
                /\ bt_pc' = "enter"
                /\ UNCHANGED <<pc, bt_result>>
    /\ UNCHANGED <<rawVars, propVars, cbjVars>>

\* search_broken_constraint(i, k, vals), scanning self.constraints from
\* position j on.  The result is the broken scope as an Option, or a panic:
\* scope[len - 1] on an empty scope, or the unwrap of an unassigned value.
RECURSIVE search_broken_from(_, _, _, _)
search_broken_from(i, k, vs, j) ==
    IF j > Len(prop_constraints) THEN [panic |-> FALSE, broken |-> None]
    ELSE LET scope == prop_constraints[j].scope
             len == Len(scope)
         IN  IF len = 0 THEN [panic |-> TRUE, broken |-> None]
             ELSE IF scope[len] > i THEN [panic |-> FALSE, broken |-> None]
             ELSE IF ~(len >= 2 /\ scope[len] = i /\ scope[len - 1] = k)
                  THEN search_broken_from(i, k, vs, j + 1)
             ELSE IF has_none(scope, vs) THEN [panic |-> TRUE, broken |-> None]
             ELSE IF ~Eval(prop_constraints[j].evaluate, scope_values(scope, vs))
                  THEN [panic |-> FALSE, broken |-> Some(scope)]
             ELSE search_broken_from(i, k, vs, j + 1)

\* search_broken_constraint reporting only the last two variables of the
\* broken scope.
search_broken_last_two(i, k, vs) ==
    LET b == search_broken_from(i, k, vs, 1)
    IN  IF b.broken = None THEN b ELSE [b EXCEPT !.broken = Some(<<k, i>>)]

search_broken_constraint(i, k, vs) == search_broken_from(i, k, vs, 1)

\* The loop `while k < i && consistent` of select_val_cbj from k on: the first
\* broken constraint met, if any.
RECURSIVE consistency_from(_, _, _)
consistency_from(i, k, vs) ==
    IF k >= i THEN [panic |-> FALSE, broken |-> None]
    ELSE LET b == search_broken_constraint(i, k, vs)
         IN  IF b.panic \/ b.broken # None THEN b
             ELSE consistency_from(i, k + 1, vs)

\* select_val_cbj(i, curr_domain, conf_set, vals): the value it returns and
\* what it leaves in the three structures it mutates.
RECURSIVE select_val_cbj(_, _, _, _)
select_val_cbj(i, cd, cs, vs) ==
    IF cd[i + 1] = <<>>
    THEN [panic |-> FALSE, val |-> None, curr_domain |-> cd, conf_set |-> cs, vals |-> vs]
    ELSE LET a == cd[i + 1][Len(cd[i + 1])]
             cd1 == [cd EXCEPT ![i + 1] = SubSeq(@, 1, Len(@) - 1)]
             vs1 == [vs EXCEPT ![i + 1] = Some(a)]
             b == consistency_from(i, 0, vs1)
         IN  IF b.panic
             THEN [panic |-> TRUE, val |-> None, curr_domain |-> cd1, conf_set |-> cs,
                   vals |-> vs1]
             ELSE IF b.broken = None
             THEN [panic |-> FALSE, val |-> Some(a), curr_domain |-> cd1, conf_set |-> cs,
                   vals |-> vs1]
             ELSE select_val_cbj(
                    i, cd1,
                    [cs EXCEPT ![i + 1] = @ \cup (Range(b.broken[1]) \ {i})],
                    vs1)

\* vals.into_iter().collect::<Option<Vec<_>>>()
collect(vs) ==
    IF \E j \in 1..Len(vs) : vs[j] = None THEN NoSolution
    ELSE Solution([j \in 1..Len(vs) |-> vs[j][1]])

\* Max picking the earliest variable of the conflict set instead of the latest.
Max_earliest(S) == CHOOSE m \in S : \A o \in S : m <= o

\* conf_set[i].iter().max()
Max(S) == CHOOSE m \in S : \A o \in S : o <= m

\* solve_cbj up to the first test of `while i < n`; with n = 0 the loop is
\* skipped and the (empty) vals are collected.
solve_cbj ==
    /\ pc = "bt_done"
    /\ cbj_i' = 0
    /\ curr_domain' = domains
    /\ conf_set' = [j \in 1..NumVars |-> {}]
    /\ vals' = [j \in 1..NumVars |-> None]
    /\ IF NumVars = 0
       THEN /\ pc' = "done"
            /\ cbj_result' = collect(<<>>)
       ELSE /\ pc' = "cbj"
            /\ UNCHANGED cbj_result
    /\ UNCHANGED <<rawVars, propVars, btVars>>

\* One iteration of the while loop of solve_cbj.
cbj_step ==
    /\ pc = "cbj"
    /\ LET r == select_val_cbj(cbj_i, curr_domain, conf_set, vals)
           vs == [r.vals EXCEPT ![cbj_i + 1] = r.val]
       IN  /\ curr_domain' = IF ~r.panic /\ r.val # None /\ cbj_i + 1 < NumVars
                             THEN [r.curr_domain EXCEPT ![cbj_i + 2] = domains[cbj_i + 2]]
                             ELSE r.curr_domain
           /\ IF r.panic
              THEN /\ pc' = "done"
                   /\ cbj_result' = Panic
                   /\ vals' = r.vals
                   /\ conf_set' = r.conf_set
                   /\ UNCHANGED cbj_i
              ELSE IF r.val = None
              THEN /\ vals' = vs
                   /\ IF r.conf_set[cbj_i + 1] # {}
                      THEN LET max == Max(r.conf_set[cbj_i + 1])
                           IN  /\ cbj_i' = max
                               /\ conf_set' =
                                     [r.conf_set EXCEPT ![max + 1] =
                                         (@ \cup r.conf_set[cbj_i + 1]) \ {max}]
                               /\ UNCHANGED <<pc, cbj_result>>
                      ELSE /\ pc' = "done"
                           /\ cbj_result' = NoSolution
                           /\ conf_set' = r.conf_set
                           /\ UNCHANGED cbj_i
              ELSE /\ vals' = vs
                   /\ cbj_i' = cbj_i + 1
                   /\ IF cbj_i + 1 = NumVars
                      THEN /\ pc' = "done"
                           /\ cbj_result' = collect(vs)
                           /\ conf_set' = r.conf_set
                      ELSE /\ conf_set' = [r.conf_set EXCEPT ![cbj_i + 2] = {}]
                           /\ UNCHANGED <<pc, cbj_result>>
    /\ UNCHANGED <<rawVars, propVars, btVars>>

Next ==
    \/ \E d \in DomainInputs : add_var(d)
    \/ \E s \in SeqsUpTo(VarIds, MaxScope), e \in Evaluations : add_constraint(s, e)
    \/ normalize_problem
    \/ make_node_consistency
    \/ init_worklist
    \/ arc_step
    \/ arc_return
    \/ rerun_arc_consistency
    \/ solve_backtracking
    \/ backtrack_enter
    \/ backtrack_resume
    \/ solve_cbj
    \/ cbj_step

Spec == Init /\ [][Next]_vars

(***************************************************************************)
(* The original problem, as the builder received it.                       *)
(***************************************************************************)

\* Does the Raw constraint c hold on the assignment a (a function of the
\* variable ids)?  Each Raw predicate is called on its own fresh iterator.
raw_holds(c, a) == Call(c.evaluate, [j \in 1..Len(c.scope) |-> a[c.scope[j]]]).holds

\* The assignments of the variables G that take each value from the
\* variable's original domain and satisfy every Raw constraint over G.
GroupSolutions(G) ==
    {a \in [G -> Universe] :
        /\ \A v \in G : a[v] \in Range(raw_domains[v + 1])
        /\ \A j \in 1..Len(raw_constraints) :
              Range(raw_constraints[j].scope) \subseteq G => raw_holds(raw_constraints[j], a)}

Solutions == GroupSolutions(VarIds)

\* A returned Vec (position = id + 1) as an assignment.
AsAssignment(vs) == [v \in 0..(Len(vs) - 1) |-> vs[v + 1]]

IsSolution(vs) == Len(vs) = NumVars /\ AsAssignment(vs) \in Solutions

\* Does a returned Vec satisfy the Propagated problem?
SatisfiesPropagated(vs) ==
    /\ Len(vs) = NumVars
    /\ \A j \in 1..NumVars : vs[j] \in Range(domains[j])
    /\ \A j \in 1..Len(prop_constraints) :
          Eval(prop_constraints[j].evaluate,
               [m \in 1..Len(prop_constraints[j].scope) |->
                   vs[prop_constraints[j].scope[m] + 1]])

(***************************************************************************)
(* Claims                                                                  *)
(***************************************************************************)

\* C1: propagation is sound.  While node and arc consistency run, and in the
\* Propagated problem, every value of every solution of the original problem
\* is still in its variable's domain, and constraint_propagation returns None
\* only when the original problem has no solution.
PropagationSound ==
    (pc \in {"node", "arc", "propagated", "unsat"} /\ ~rerun) =>
        \A a \in Solutions :
            /\ pc # "unsat"
            /\ \A v \in VarIds : a[v] \in Range(domains[v + 1])

\* C2: whenever solve_backtracking returns an assignment, it has one value
\* per variable from the variable's original domain and satisfies every
\* constraint of the original Raw problem.
BacktrackingSound == bt_result.kind = "some" => IsSolution(bt_result.vals)

\* C3: whenever solve_cbj returns an assignment, it satisfies every
\* constraint of the original Raw problem.
CbjSound == cbj_result.kind = "some" => IsSolution(cbj_result.vals)

\* C4: on every Propagated problem solve_backtracking and solve_cbj either
\* both return None or both return an assignment satisfying the Propagated
\* problem; neither aborts.
SearchesAgree ==
    pc = "done" =>
        \/ bt_result.kind = "none" /\ cbj_result.kind = "none"
        \/ /\ bt_result.kind = "some" /\ SatisfiesPropagated(bt_result.vals)
           /\ cbj_result.kind = "some" /\ SatisfiesPropagated(cbj_result.vals)

\* C5: every constraint stored in a Raw problem has a non-empty scope of
\* distinct variables in strictly ascending index order (add_constraint
\* aborts on every other scope).
StoredScopesStrictlyAscending ==
    \A j \in 1..Len(raw_constraints) :
        LET scope == raw_constraints[j].scope
        IN  /\ Len(scope) > 0
            /\ \A m \in 1..(Len(scope) - 1) : scope[m] < scope[m + 1]

\* C6: constraint_propagation reports Unsatisfiable as soon as node
\* consistency leaves a variable with an empty domain: arc consistency is
\* never entered with an empty domain, and no Propagated problem holds one.
NoEmptyDomainPastNodeConsistency ==
    (pc \in {"arc", "propagated"} /\ ~rerun) =>
        \A j \in 1..Len(domains) : domains[j] # <<>>

\* C7: for every Raw problem the builder accepts, neither search aborts:
\* each ends with an assignment or None.
SearchNeverPanics == bt_result.kind # "panic" /\ cbj_result.kind # "panic"

\* C8: when make_arc_consistency has returned Some, running it again on the
\* returned domains with the same constraints never returns None and leaves
\* every domain as the first run returned it.
ArcConsistencyIdempotent == rerun => (pc # "unsat" /\ domains = first_domains)

\* C8 witness: a second run has ended on domains that the first run's
\* arc_reduce had pruned (no unary constraint took part).
RerunAfterArcPruning ==
    /\ pc = "rerun_done"
    /\ \A j \in 1..Len(raw_constraints) : Len(raw_constraints[j].scope) # 1
    /\ \E j \in 1..NumVars : Len(first_domains[j]) < Len(raw_domains[j])

\* A step taken inside node consistency or the worklist loop only shrinks.
StepShrinksDomains ==
    pc \in {"node", "arc"} =>
        \A j \in 1..Len(domains) :
            /\ Range(domains'[j]) \subseteq Range(domains[j])
            /\ Len(domains'[j]) <= Len(domains[j])
            /\ Range(domains'[j]) \subseteq Range(raw_domains[j])

\* C9: every step of node consistency and of the arc-consistency worklist
\* loop leaves each domain a subset of what it was, no longer than it was,
\* and a subset of the domain the builder supplied.
DomainsNeverGrow == [][StepShrinksDomains]_vars

\* C9 witness: the worklist loop is running after node consistency has
\* removed some but not all values of one domain and arc_reduce some but not
\* all values of another.
NodeAndArcPruned ==
    /\ pc = "arc"
    /\ ~rerun
    /\ \E j, m \in 1..NumVars :
          /\ domains[j] # <<>> /\ Len(domains[j]) < Len(raw_domains[j])
          /\ \E c \in Range(raw_constraints) : c.scope = <<j - 1>>
          /\ domains[m] # <<>> /\ Len(domains[m]) < Len(raw_domains[m])
          /\ \A c \in Range(raw_constraints) : c.scope # <<m - 1>>

\* C10: when the variables split into two groups that no constraint scope
\* crosses, the pipeline with either search returns an assignment iff each
\* group taken alone is satisfiable.
DisconnectedGroupsSolveIndependently ==
    \A G \in SUBSET VarIds :
        (/\ G # {} /\ G # VarIds
         /\ \A j \in 1..Len(raw_constraints) :
               \/ Range(raw_constraints[j].scope) \subseteq G
               \/ Range(raw_constraints[j].scope) \subseteq VarIds \ G)
        => LET both == GroupSolutions(G) # {} /\ GroupSolutions(VarIds \ G) # {}
           IN  /\ (pc = "unsat" /\ ~rerun) => ~both
               /\ pc \in {"bt_done", "cbj", "done"} => (bt_result.kind = "some" <=> both)
               /\ pc = "done" => (cbj_result.kind = "some" <=> both)

\* The Raw problem built like the row part of Sudoku::to_constraint_problem
\* for a grid of rows of k cells, no cell filled in: every domain is 1..k, and
\* each row of k consecutive variables carries one all-distinct constraint.
all_distinct_rows(k) ==
    /\ NumVars > 0
    /\ NumVars % k = 0
    /\ \A j \in 1..NumVars : raw_domains[j] = [v \in 1..k |-> v]
    /\ Len(raw_constraints) = NumVars \div k
    /\ \A r \in 1..(NumVars \div k) :
          raw_constraints[r] =
              [scope |-> [m \in 1..k |-> (r - 1) * k + (m - 1)],
               evaluate |-> [kind |-> "distinct", val |-> 0]]

\* C11: when every domain is 1..k and the only constraints are one all-distinct
\* constraint per row of k consecutive variables (k >= 2, so none is unary),
\* constraint_propagation returns Some and solve_backtracking returns an
\* assignment in which every row is a permutation of 1..k.
UnfixedRowsSolved ==
    \A k \in 2..MaxVars :
        (all_distinct_rows(k) /\ ~rerun) =>
            /\ pc # "unsat"
            /\ bt_result.kind \in {"pending", "some"}
            /\ bt_result.kind = "some" =>
                  /\ Len(bt_result.vals) = NumVars
                  /\ \A r \in 1..(NumVars \div k) :
                        {bt_result.vals[(r - 1) * k + m] : m \in 1..k} = 1..k

\* The step the worklist loop takes on an arc (x, y) whose constraint is
\* stored under the ascending scope [y, x]: x keeps exactly the values vx for
\* which some vy of y's current domain makes the predicate hold on (vy, vx).
ReverseArcStep ==
    (pc = "arc" /\ worklist # <<>>) =>
        LET x == worklist[Len(worklist)][1]
            y == worklist[Len(worklist)][2]
        IN  (y < x /\ has_constraint(<<y, x>>)) =>
                domains'[x + 1] =
                    SelectSeq(domains[x + 1],
                              LAMBDA vx : \E j \in 1..Len(domains[y + 1]) :
                                  Eval(constraints[<<y, x>>], <<domains[y + 1][j], vx>>))

\* C12: arc reduction respects the stored scope order.  For a binary
\* constraint stored under [y, x], arc_reduce(x, y) evaluates the predicate
\* on (vy, vx) and removes vx exactly when no vy supports it; the reverse
\* orientation alone never empties x's domain.
ReverseArcUsesStoredOrder == [][ReverseArcStep]_vars

\* The step the worklist loop takes when arc (x, y) pruned x without emptying
\* it: the arcs appended are the arcs (z, x), z # y, for which a binary
\* constraint between z and x is stored (under either scope order).
ReenqueueStep ==
    (pc = "arc" /\ worklist # <<>> /\ pc' = "arc" /\ domains' # domains) =>
        LET x == worklist[Len(worklist)][1]
            y == worklist[Len(worklist)][2]
            appended == SubSeq(worklist', Len(worklist), Len(worklist'))
        IN  Range(appended) =
                {a \in Range(vars_cartesian_product) :
                    /\ a[1] # y
                    /\ a[2] = x
                    /\ (has_constraint(<<a[1], x>>) \/ has_constraint(<<x, a[1]>>))}

\* C13: after arc (x, y) prunes x, the arcs appended to the worklist are
\* exactly the arcs (z, x) with z different from y that share a binary
\* constraint with x; no other arc is ever appended.
ReenqueueOnlyNeighbourArcs == [][ReenqueueStep]_vars

\* The assignments (one value per variable, as a Vec) that satisfy the
\* Propagated problem.
PropagatedSolutions == {vs \in [1..NumVars -> Universe] : SatisfiesPropagated(vs)}

\* Is the Vec a before or equal to the Vec b of the same length in
\* lexicographic order?
LexLeq(a, b) ==
    \/ a = b
    \/ \E j \in 1..Len(a) : a[j] < b[j] /\ \A m \in 1..(j - 1) : a[m] = b[m]

\* C14: on a Propagated problem whose domains are non-empty (they are sorted
\* and duplicate-free), solve_backtracking returns None iff no assignment
\* satisfies the problem, and otherwise the lexicographically smallest
\* satisfying assignment.
BacktrackingCompleteAndLeast ==
    (pc \in {"bt_done", "cbj", "done"} /\ \A j \in 1..NumVars : domains[j] # <<>>) =>
        /\ bt_result.kind = "none" <=> PropagatedSolutions = {}
        /\ PropagatedSolutions # {} =>
              /\ bt_result.kind = "some"
              /\ bt_result.vals \in PropagatedSolutions
              /\ \A vs \in PropagatedSolutions : LexLeq(bt_result.vals, vs)

(***************************************************************************)
(* The searches on their own: solve_backtracking and solve_cbj take a      *)
(* PropagatedProblem (its fields are pub).  SpecSearch starts from the      *)
(* Propagated problems constraint_propagation emits for Raw problems of    *)
(* SearchVars variables whose constraints have three or more different     *)
(* variables each: neither node nor arc consistency touches such a         *)
(* problem, so what is emitted is the sorted domains and the sorted         *)
(* constraint list.                                                        *)
(***************************************************************************)
SearchVars == 4
SearchCons == 2

\* The scopes of three or more variables in strictly ascending order.
SearchScopes ==
    {s \in SeqsUpTo(0..(SearchVars - 1), SearchVars) :
        Len(s) >= 3 /\ \A j \in 1..(Len(s) - 1) : s[j] < s[j + 1]}

SearchConstraints == [scope : SearchScopes, evaluate : Evaluations]

InitSearch ==
    /\ raw_domains \in [1..SearchVars -> {d \in DomainInputs : d = sort_domain(d)}]
    /\ raw_constraints \in
          {cs \in SeqsUpTo(SearchConstraints, SearchCons) :
              \A j \in 1..(Len(cs) - 1) : scope_cmp(cs[j].scope, cs[j + 1].scope, 0) <= 0}
    /\ pc = "propagated"
    /\ domains = sort_domains(raw_domains)
    /\ constraints = normalized_cons(raw_constraints, Len(raw_constraints))
    /\ node_i = Len(raw_domains)
    /\ worklist = <<>>
    /\ rerun = FALSE
    /\ first_domains = raw_domains
    /\ prop_constraints =
          sort_constraints(normalized_cons(raw_constraints, Len(raw_constraints)))
    /\ candidate = <<>>
    /\ bt_k = 0
    /\ bt_pc = "enter"
    /\ bt_result = Pending
    /\ cbj_i = 0
    /\ curr_domain = <<>>
    /\ conf_set = <<>>
    /\ vals = <<>>
    /\ cbj_result = Pending

NextSearch ==
    \/ solve_backtracking
    \/ backtrack_enter
    \/ backtrack_resume
    \/ solve_cbj
    \/ cbj_step

SpecSearch == InitSearch /\ [][NextSearch]_vars

\* C15: whenever solve_cbj ends at a dead end with an empty conflict set and
\* returns None, no assignment satisfies the Propagated problem: the
\* backjumps never skipped a part of the search space holding a solution.
CbjNoneMeansUnsatisfiable == cbj_result.kind = "none" => PropagatedSolutions = {}

\* C15 witness: solve_cbj has returned None on a problem whose domains all
\* hold two values, and a backjump passed over a variable that had tried one
\* of its values and still had the other in its working domain.
CbjGaveUpAfterSkipping ==
    /\ pc = "done"
    /\ cbj_result.kind = "none"
    /\ \A j \in 1..NumVars : Len(domains[j]) = 2
    /\ \E j \in 1..NumVars : Len(curr_domain[j]) = 1

\* One iteration of solve_cbj's loop seen from outside (i is the cursor
\* before the step; conf_set'[i + 1] is i's conflict set at the dead end,
\* which the step does not change any more):
\*  - a backjump goes to the largest member j of i's conflict set, merges
\*    i's conflict set into j's without j itself, and does not refill j's
\*    working domain;
\*  - an advance resets the working domain and conflict set of the variable
\*    entered;
\*  - no other variable's working domain or conflict set changes, and the
\*    cursor's own working domain only loses values from its end.
BackjumpStep ==
    pc = "cbj" =>
        LET i == cbj_i
            j == cbj_i'
            others == (0..(NumVars - 1)) \ {i}
        IN  /\ \E m \in 0..Len(curr_domain[i + 1]) :
                  curr_domain'[i + 1] = SubSeq(curr_domain[i + 1], 1, m)
            /\ conf_set[i + 1] \subseteq conf_set'[i + 1]
            /\ j < i =>
                  /\ j \in conf_set'[i + 1]
                  /\ \A o \in conf_set'[i + 1] : o <= j
                  /\ conf_set'[j + 1] = (conf_set[j + 1] \cup conf_set'[i + 1]) \ {j}
                  /\ curr_domain'[j + 1] = curr_domain[j + 1]
                  /\ \A v \in others \ {j} : conf_set'[v + 1] = conf_set[v + 1]
                  /\ \A v \in others : curr_domain'[v + 1] = curr_domain[v + 1]
            /\ (j = i + 1 /\ j < NumVars) =>
                  /\ curr_domain'[j + 1] = domains[j + 1]
                  /\ conf_set'[j + 1] = {}
                  /\ \A v \in others \ {j} :
                        /\ conf_set'[v + 1] = conf_set[v + 1]
                        /\ curr_domain'[v + 1] = curr_domain[v + 1]
            /\ (j = i \/ j = NumVars) =>
                  \A v \in others :
                      /\ conf_set'[v + 1] = conf_set[v + 1]
                      /\ curr_domain'[v + 1] = curr_domain[v + 1]

\* C16: at a dead end on variable i with a non-empty conflict set, solve_cbj
\* moves the cursor to j = max(conf_set[i]), sets conf_set[j] to
\* (conf_set[j] \cup conf_set[i]) \ {j} and leaves j's working domain as it
\* was; a working domain and conflict set are reset to the propagated domain
\* and the empty set only for the variable the cursor advances into.
BackjumpMergesConflictSets == [][BackjumpStep]_vars

\* C16 witness: the cursor stands on j after a backjump from a later variable
\* i that passed over at least one variable: i's working domain is used up,
\* j is the largest member of i's conflict set, the rest of that set is not
\* empty and has been merged into j's, and j's working domain has not been
\* refilled.
BackjumpedOverVariable ==
    /\ pc = "cbj"
    /\ \E i \in (cbj_i + 2)..(NumVars - 1) :
          /\ curr_domain[i + 1] = <<>>
          /\ cbj_i \in conf_set[i + 1]
          /\ \A o \in conf_set[i + 1] : o <= cbj_i
          /\ conf_set[i + 1] \ {cbj_i} # {}
          /\ conf_set[i + 1] \ {cbj_i} \subseteq conf_set[cbj_i + 1]
          /\ Len(curr_domain[cbj_i + 1]) < Len(domains[cbj_i + 1])

\* C17: in every state of solve_cbj, conf_set[i] holds only indices smaller
\* than i; conf_set[0] is always empty.
ConflictSetsHoldEarlierVariables ==
    \A v \in 0..(Len(conf_set) - 1) : conf_set[v + 1] \subseteq 0..(v - 1)

\* C17 witness: solve_cbj is running, some variable's conflict set holds
\* every earlier variable (two or more), and the cursor's own conflict set
\* has been filled by a merge or a failed value.
ConflictSetsFilled ==
    /\ pc = "cbj"
    /\ conf_set[cbj_i + 1] # {}
    /\ \E v \in 2..(NumVars - 1) : v # cbj_i /\ conf_set[v + 1] = 0..(v - 1)

\* What a predicate evaluated by either search reads.  When backtrack(k) is
\* entered the assigned slots of candidate are exactly the variables below k,
\* and no constraint of to_check has an unassigned variable in its scope; when
\* solve_cbj's loop stands on variable i, every other variable in the scope
\* of a constraint that select_val_cbj can evaluate for i holds a value.
ReadsAssignedSlots ==
    /\ (pc = "backtrack" /\ bt_pc = "enter") =>
          /\ \A v \in 0..(NumVars - 1) : candidate[v + 1] # None <=> v < bt_k
          /\ \A j \in 1..Len(to_check(bt_k)) : ~has_none(to_check(bt_k)[j].scope, candidate)
    /\ pc = "cbj" =>
          \A j \in 1..Len(prop_constraints) :
              LET scope == prop_constraints[j].scope
                  len == Len(scope)
              IN  (len >= 2 /\ scope[len] = cbj_i /\ scope[len - 1] < cbj_i) =>
                      \A m \in 1..len : scope[m] # cbj_i => vals[scope[m] + 1] # None

\* Inside solve_backtracking a frame is entered exactly by the steps that
\* give a variable a value, and the frame entered is the one that checks the
\* constraints ending in that variable: one call of reject per value.
OneRejectPerValue ==
    (pc = "backtrack" /\ pc' = "backtrack") =>
        /\ bt_pc' = "enter" <=>
              \E v \in 1..NumVars : candidate'[v] # None /\ candidate'[v] # candidate[v]
        /\ bt_pc' = "enter" =>
              /\ candidate'[bt_k'] # None
              /\ candidate'[bt_k'] # candidate[bt_k']

\* The call of reject at the entry of backtrack(k) evaluates the constraints
\* of to_check in order, each at most once, and stops after the first violated one.
EvaluatedUpToFirstViolated ==
    (pc = "backtrack" /\ bt_pc = "enter") =>
        LET evaluated == reject_evaluated(candidate, bt_k)
            all == to_check(bt_k)
        IN  /\ Len(evaluated) <= Len(all)
            /\ evaluated = SubSeq(all, 1, Len(evaluated))
            /\ \A j, m \in 1..Len(evaluated) : j # m => evaluated[j].scope # evaluated[m].scope
            /\ \A j \in 1..(Len(evaluated) - 1) : ~violated(evaluated[j], candidate)
            /\ Len(evaluated) < Len(all) => violated(evaluated[Len(evaluated)], candidate)

\* The call of reject at the entry of backtrack(k) evaluates every constraint
\* of to_check, each once.
EvaluatedEveryConstraint ==
    (pc = "backtrack" /\ bt_pc = "enter") =>
        reject_evaluated(candidate, bt_k) = to_check(bt_k)

BackwardCheckStep == ReadsAssignedSlots /\ OneRejectPerValue /\ EvaluatedUpToFirstViolated

ExactlyOnceStep == ReadsAssignedSlots /\ OneRejectPerValue /\ EvaluatedEveryConstraint

\* C18 (as amended): whenever either search evaluates a predicate every
\* variable of its scope holds a value assigned on the current search path,
\* and in solve_backtracking each value given to a variable is followed by one
\* call of reject, which evaluates the constraints ending in that variable in
\* list order, each at most once, up to and including the first violated one;
\* no constraint is evaluated before its last variable is assigned.
BackwardCheckingAtMostOnce == [][BackwardCheckStep]_vars

\* C18 (as stated): as above, but each constraint is evaluated exactly once per
\* value given to its last scope variable.
BackwardCheckingExactlyOnce == [][ExactlyOnceStep]_vars

\* C18 witness: backtrack(k) is entered with two or more constraints ending
\* in variable k - 1, of which reject evaluates only a part because an
\* earlier one is violated.
RejectStopsEarly ==
    /\ pc = "backtrack"
    /\ bt_pc = "enter"
    /\ Len(to_check(bt_k)) >= 2
    /\ Len(reject_evaluated(candidate, bt_k)) < Len(to_check(bt_k))

\* C19: normalize_problem leaves the domains as they were and stores exactly
\* one predicate per distinct scope of the Raw problem; on every tuple of
\* values that predicate holds iff every Raw constraint with that scope holds,
\* however many constraints share the scope and in whatever order they came.
NormalizationIsConjunction ==
    (pc = "node" /\ node_i = 0) =>
        /\ domains = raw_domains
        /\ DOMAIN constraints = {raw_constraints[j].scope : j \in 1..Len(raw_constraints)}
        /\ \A scope \in DOMAIN constraints :
              \A values \in [1..Len(scope) -> Universe] :
                  Eval(constraints[scope], values) <=>
                      \A j \in 1..Len(raw_constraints) :
                          raw_constraints[j].scope = scope =>
                              Call(raw_constraints[j].evaluate, values).holds

\* C20: on the constraint list constraint_propagation emits, for every pair
\* k < i and every assignment of the variables, search_broken_constraint(i, k)
\* returns a scope iff some constraint of length >= 2 whose scope ends in
\* (k, i) is violated; the early exit at the first scope whose last index
\* exceeds i skips no such constraint.
SearchBrokenFindsEveryViolation ==
    pc = "propagated" =>
        \A i, k \in VarIds :
            k < i =>
                \A vs \in [1..NumVars -> {Some(v) : v \in Universe}] :
                    LET found == search_broken_constraint(i, k, vs)
                    IN  /\ ~found.panic
                        /\ found.broken # None <=>
                              \E j \in 1..Len(prop_constraints) :
                                  LET c == prop_constraints[j]
                                  IN  /\ Len(c.scope) >= 2
                                      /\ c.scope[Len(c.scope)] = i
                                      /\ c.scope[Len(c.scope) - 1] = k
                                      /\ violated(c, vs)

(***************************************************************************)
(* The pipeline run to its end: the client's calls and the loops they      *)
(* start are sequential code, so a step that can be taken is taken.        *)
(***************************************************************************)
SpecFair == Spec /\ WF_vars(Next)

\* How solve_cbj may end: every variable assigned (the collected vals), or a
\* dead end on the cursor's variable with an empty conflict set.
CbjEndsAssignedOrAtDeadEnd ==
    pc = "done" =>
        \/ /\ cbj_result.kind = "some"
           /\ Len(cbj_result.vals) = NumVars
           /\ cbj_i = NumVars
        \/ /\ cbj_result.kind = "none"
           /\ curr_domain[cbj_i + 1] = <<>>
           /\ conf_set[cbj_i + 1] = {}

\* A backjump lands on a strictly earlier variable, whose working domain
\* holds fewer values than the propagated domain it was filled with when the
\* cursor last entered it.
BackjumpLandsEarlier ==
    (pc = "cbj" /\ pc' = "cbj" /\ cbj_i' # cbj_i + 1) =>
        /\ cbj_i' < cbj_i
        /\ Len(curr_domain'[cbj_i' + 1]) < Len(domains[cbj_i' + 1])

\* C21: on every Propagated problem solve_cbj eventually stops, with all n
\* variables assigned or at a dead end with an empty conflict set; each
\* backjump lands on a strictly earlier variable whose working domain has
\* strictly fewer untried values than when it was last entered.
CbjTerminates ==
    /\ (pc = "cbj") ~> (pc = "done")
    /\ []CbjEndsAssignedOrAtDeadEnd
    /\ [][BackjumpLandsEarlier]_vars
====
